---------------------------- MODULE Spec2Model ----------------------------
(***************************************************************************)
(* The incremental fee cache of the protocol page (the useFees hook) and   *)
(* the helpers it calls: getMissing, getDateWithSmoothing, formatData and  *)
(* saveFeeData.                                                            *)
(*                                                                         *)
(* A Date is its epoch time in milliseconds.  A DateKey (the string that   *)
(* formatDate returns) is the number of the UTC day the Date falls in.     *)
(* Windows start and end at UTC midnight (dateFloor) and addDays moves a   *)
(* Date by 24 hours, as date-fns does where the local day has 24 hours.    *)
(* A number computed by the derivation is an exact fraction <<n, d>> in    *)
(* lowest terms, so that the division of the moving average is modelled.   *)
(***************************************************************************)
EXTENDS Integers, Sequences, FiniteSets, TLC

(* ------------------------------ bounds -------------------------------- *)

\* The visible window lies in the days 0 .. MaxDay.
MaxDay == 1
\* The smoothing factor ranges over 0 .. MaxSmoothing.
MaxSmoothing == 2
\* The number of runs of the effect (the mount included) in one behaviour.
MaxTriggers == 2
\* The number of rows a subgraph answers a day query with, per list.
MaxRows == 2

(* ----------------------------- constants ------------------------------ *)

\* date.getTime() / 1000
MsPerSecond == 1000
\* The length of a UTC day in milliseconds (addDays, subDays, formatDate).
MsPerDay == 86400000

Protocols == {"p", "q"}
\* secondary: string | null
Null == "null"

(* ------------------------------- dates -------------------------------- *)

addDays(date, n) == date + n * MsPerDay
subDays(date, n) == date - n * MsPerDay
isAfter(date, other) == date > other
\* The day a Date falls in, floored in UTC.
formatDate(date) == date \div MsPerDay
\* The Date at UTC midnight of a day.
DayStart(day) == day * MsPerDay

(* ------------------------------ numbers ------------------------------- *)

RECURSIVE Gcd(_, _)
Gcd(a, b) == IF b = 0 THEN a ELSE Gcd(b, a % b)

\* The number n / d (d > 0, n >= 0), in lowest terms.
Quot(n, d) == LET g == Gcd(n, d) IN <<n \div g, d \div g>>

(* ----------------------------- the store ------------------------------ *)
\* A store maps the protocol ids that have an entry to a map from the
\* DateKeys that have a record to that record.

Has(data, id, dateStr) == id \in DOMAIN data /\ dateStr \in DOMAIN data[id]

\* data[id] = {} when data[id] is not set.
NoCells == [k \in {} |-> [fee |-> 0]]

EnsureEntry(data, id) ==
  IF id \in DOMAIN data THEN data ELSE data @@ (id :> NoCells)

\* MissingLoop stopping one day early (date < maxDate as the loop test).
RECURSIVE MissingLoopShort(_, _, _, _)
MissingLoopShort(data, date, maxDate, id) ==
  IF ~(date < maxDate) THEN <<>>
  ELSE (IF formatDate(date) \in DOMAIN data[id] THEN <<>> ELSE <<formatDate(date)>>)
       \o MissingLoopShort(data, addDays(date, 1), maxDate, id)

RECURSIVE MissingLoop(_, _, _, _)
MissingLoop(data, date, maxDate, id) ==
  IF isAfter(date, maxDate) THEN <<>>
  ELSE (IF formatDate(date) \in DOMAIN data[id] THEN <<>> ELSE <<formatDate(date)>>)
       \o MissingLoop(data, addDays(date, 1), maxDate, id)

\* getMissing listing every date of the range, present or not.
RECURSIVE AllDates(_, _)
AllDates(date, maxDate) ==
  IF isAfter(date, maxDate) THEN <<>>
  ELSE <<formatDate(date)>> \o AllDates(addDays(date, 1), maxDate)

getMissingAll(data, minDate, maxDate, id) ==
  [missing |-> AllDates(minDate, maxDate), data |-> EnsureEntry(data, id)]

\* getMissing returns the missing list; it also gives the id an entry in
\* the store it is handed.
getMissing(data, minDate, maxDate, id) ==
  LET d1 == EnsureEntry(data, id)
  IN [missing |-> MissingLoop(d1, minDate, maxDate, id), data |-> d1]


\* What a call that throws a TypeError (a field read of undefined) returns.
Thrown == [threw |-> TRUE, result |-> <<>>]
Returned(v) == [threw |-> FALSE, result |-> v]

\* The loop of getDateWithSmoothing from step i on, fee being the sum so
\* far: the sum over all steps, or a throw at the first missing cell.
RECURSIVE SmoothingLoop(_, _, _, _, _, _)
SmoothingLoop(data, id, date, smoothing, i, fee) ==
  IF i > smoothing THEN Returned(fee)
  ELSE LET dateStr == formatDate(subDays(date, i))
       IN IF ~Has(data, id, dateStr) THEN Thrown
          ELSE SmoothingLoop(data, id, date, smoothing, i + 1,
                             fee + data[id][dateStr].fee)

\* getDateWithSmoothing reading a missing cell as a fee of 0.
FeeOrZero(data, id, dateStr) ==
  IF Has(data, id, dateStr) THEN data[id][dateStr].fee ELSE 0

RECURSIVE SumOrZero(_, _, _, _)
SumOrZero(data, id, date, i) ==
  IF i < 0 THEN 0
  ELSE FeeOrZero(data, id, formatDate(subDays(date, i)))
       + SumOrZero(data, id, date, i - 1)

getDateWithSmoothingZero(data, id, date, smoothing) ==
  Returned(Quot(SumOrZero(data, id, date, smoothing), smoothing + 1))

\* getDateWithSmoothing dividing by smoothing instead of smoothing + 1.
getDateWithSmoothingDiv(data, id, date, smoothing) ==
  IF ~Has(data, id, formatDate(date)) THEN Thrown
  ELSE IF smoothing > 0
       THEN LET sum == SmoothingLoop(data, id, date, smoothing, 1,
                                     data[id][formatDate(date)].fee)
            IN IF sum.threw THEN Thrown
               ELSE Returned(Quot(sum.result, smoothing))
       ELSE Returned(Quot(data[id][formatDate(date)].fee, 1))

getDateWithSmoothing(data, id, date, smoothing) ==
  IF ~Has(data, id, formatDate(date)) THEN Thrown
  ELSE IF smoothing > 0
       THEN LET sum == SmoothingLoop(data, id, date, smoothing, 1,
                                     data[id][formatDate(date)].fee)
            IN IF sum.threw THEN Thrown
               ELSE Returned(Quot(sum.result, smoothing + 1))
       ELSE Returned(Quot(data[id][formatDate(date)].fee, 1))

\* One turn of the loop of formatData: the point pushed for a date.
SeriesPoint(data, date, primaryId, secondaryId, smoothing) ==
  LET primary == getDateWithSmoothing(data, primaryId, date, smoothing)
      secondary == IF secondaryId # Null
                   THEN getDateWithSmoothing(data, secondaryId, date, smoothing)
                   ELSE Returned(Quot(0, 1))
  IN IF primary.threw \/ secondary.threw THEN Thrown
     ELSE Returned([date |-> date \div MsPerSecond,
                    primary |-> primary.result,
                    secondary |-> secondary.result])

\* FormatLoop stopping one day early (date < maxDate as the loop test).
RECURSIVE FormatLoopShort(_, _, _, _, _, _)
FormatLoopShort(data, date, maxDate, primaryId, secondaryId, smoothing) ==
  IF ~(date < maxDate) THEN Returned(<<>>)
  ELSE LET point == SeriesPoint(data, date, primaryId, secondaryId, smoothing)
       IN IF point.threw THEN Thrown
          ELSE LET rest == FormatLoopShort(data, addDays(date, 1), maxDate,
                                           primaryId, secondaryId, smoothing)
               IN IF rest.threw THEN Thrown
                  ELSE Returned(<<point.result>> \o rest.result)

RECURSIVE FormatLoop(_, _, _, _, _, _)
FormatLoop(data, date, maxDate, primaryId, secondaryId, smoothing) ==
  IF isAfter(date, maxDate) THEN Returned(<<>>)
  ELSE LET point == SeriesPoint(data, date, primaryId, secondaryId, smoothing)
       IN IF point.threw THEN Thrown
          ELSE LET rest == FormatLoop(data, addDays(date, 1), maxDate,
                                      primaryId, secondaryId, smoothing)
               IN IF rest.threw THEN Thrown
                  ELSE Returned(<<point.result>> \o rest.result)

formatData(data, minDate, maxDate, primaryId, secondaryId, smoothing) ==
  FormatLoop(data, minDate, maxDate, primaryId, secondaryId, smoothing)

\* SaveRecords leaving a date that has a record as it is.
RECURSIVE SaveRecordsKeep(_, _)
SaveRecordsKeep(cells, records) ==
  IF records = <<>> THEN cells
  ELSE LET r == Head(records)
       IN SaveRecordsKeep(cells @@ (r.date :> [fee |-> r.fee]), Tail(records))

\* storedFees[id][date] = data, for the records of one protocol in order.
RECURSIVE SaveRecords(_, _)
SaveRecords(cells, records) ==
  IF records = <<>> THEN cells
  ELSE LET r == Head(records)
           kept == [k \in DOMAIN cells \ {r.date} |-> cells[k]]
       IN SaveRecords(kept @@ (r.date :> [fee |-> r.fee]), Tail(records))

\* saveFeeData starting each protocol of the response from an empty entry.
RECURSIVE saveFeeDataReset(_, _)
saveFeeDataReset(response, storedFees) ==
  IF response = <<>> THEN storedFees
  ELSE LET protocol == Head(response)
           s1 == [k \in DOMAIN storedFees \ {protocol.id} |-> storedFees[k]]
                 @@ (protocol.id :> SaveRecords(NoCells, protocol.data))
       IN saveFeeDataReset(Tail(response), s1)

RECURSIVE saveFeeData(_, _)
saveFeeData(response, storedFees) ==
  IF response = <<>> THEN storedFees
  ELSE LET protocol == Head(response)
           s1 == EnsureEntry(storedFees, protocol.id)
           s2 == [s1 EXCEPT ![protocol.id] = SaveRecords(@, protocol.data)]
       IN saveFeeData(Tail(response), s2)

(* ------------------------------ the hook ------------------------------ *)

VARIABLES
  fees,        \* fees.current: the store
  value,       \* the hook's state: [loading, data]
  id,          \* the page's protocol, the primary of useFees
  dateRange,   \* [start, end], two Dates
  secondary,   \* a protocol id or Null
  smoothing,
  mounted,     \* whether the first run of the effect has happened
  pending,     \* the fetches in flight, oldest first
  triggers,    \* history: how many times the effect has run
  outcomes,    \* history: how the settled fetches ended
  derivedFor,  \* history: the parameters value.data was derived for, if any
  adapter      \* the query made of a Uniswap adapter, and how far it has got

vars == <<fees, value, id, dateRange, secondary, smoothing, mounted, pending,
          triggers, outcomes, derivedFor, adapter>>

\* The variables of the hook.
hookVars == <<fees, value, id, dateRange, secondary, smoothing, mounted,
              pending, triggers, outcomes, derivedFor>>

\* The parameters a run of the effect closes over.
Params(range, primary, sec, smooth) ==
  [start |-> range.start, end |-> range.end, primary |-> primary,
   secondary |-> sec, smoothing |-> smooth]

\* actualStartDate reaching one day too far back.
actualStartDateFar(start, smooth) == subDays(start, smooth + 1)

\* actualStartDate without the days the smoothing needs.
actualStartDateNone(start, smooth) == start

actualStartDate(start, smooth) ==
  IF smooth > 0 THEN subDays(start, smooth) ELSE start

\* FeesByDayQuery listing the primary's missing dates for the secondary.
FeesByDayQuerySame(primary, missingPrimary, sec, missingSecondary) ==
  <<[id |-> primary, dates |-> missingPrimary]>>
  \o (IF Len(missingSecondary) > 0
      THEN <<[id |-> sec, dates |-> missingPrimary]>> ELSE <<>>)

\* The query string of the fetch: the primary with its missing dates and,
\* when it has missing dates, the secondary with its.
FeesByDayQuery(primary, missingPrimary, sec, missingSecondary) ==
  <<[id |-> primary, dates |-> missingPrimary]>>
  \o (IF Len(missingSecondary) > 0
      THEN <<[id |-> sec, dates |-> missingSecondary]>> ELSE <<>>)

\* useFeesEffect blanking the series when it starts to load.
useFeesEffectBlank(data, val, p) ==
  LET minDate == actualStartDate(p.start, p.smoothing)
      mp == getMissing(data, minDate, p.end, p.primary)
      ms == IF p.secondary # Null
            THEN getMissing(mp.data, minDate, p.end, p.secondary)
            ELSE [missing |-> <<>>, data |-> mp.data]
      series == formatData(ms.data, p.start, p.end, p.primary, p.secondary,
                           p.smoothing)
  IN IF Len(mp.missing) > 0 \/ Len(ms.missing) > 0
     THEN [fees |-> ms.data,
           value |-> [data |-> <<>>, loading |-> TRUE],
           fetch |-> <<FeesByDayQuery(p.primary, mp.missing, p.secondary,
                                      ms.missing)>>,
           derived |-> FALSE, threw |-> FALSE]
     ELSE IF series.threw
          THEN [fees |-> ms.data, value |-> val, fetch |-> <<>>,
                derived |-> FALSE, threw |-> TRUE]
          ELSE [fees |-> ms.data,
                value |-> [loading |-> FALSE, data |-> series.result],
                fetch |-> <<>>, derived |-> TRUE, threw |-> FALSE]

\* The body of the effect, run with parameters p on store data and state
\* val: the store and the state it leaves, the fetch it issues (none or
\* one), and whether it derived the series or threw.
useFeesEffect(data, val, p) ==
  LET minDate == actualStartDate(p.start, p.smoothing)
      mp == getMissing(data, minDate, p.end, p.primary)
      ms == IF p.secondary # Null
            THEN getMissing(mp.data, minDate, p.end, p.secondary)
            ELSE [missing |-> <<>>, data |-> mp.data]
      series == formatData(ms.data, p.start, p.end, p.primary, p.secondary,
                           p.smoothing)
  IN IF Len(mp.missing) > 0 \/ Len(ms.missing) > 0
     THEN [fees |-> ms.data,
           value |-> [data |-> val.data, loading |-> TRUE],
           fetch |-> <<FeesByDayQuery(p.primary, mp.missing, p.secondary,
                                      ms.missing)>>,
           derived |-> FALSE, threw |-> FALSE]
     ELSE IF series.threw
          THEN [fees |-> ms.data, value |-> val, fetch |-> <<>>,
                derived |-> FALSE, threw |-> TRUE]
          ELSE [fees |-> ms.data,
                value |-> [loading |-> FALSE, data |-> series.result],
                fetch |-> <<>>, derived |-> TRUE, threw |-> FALSE]

\* onResponse blanking the series on a failed response.
onResponseBlank(response, data, val, p) ==
  IF ~response.success
  THEN [fees |-> data, value |-> [data |-> <<>>, loading |-> FALSE],
        derived |-> FALSE, outcome |-> "failed"]
  ELSE LET saved == saveFeeData(response.data, data)
           series == formatData(saved, p.start, p.end, p.primary, p.secondary,
                                p.smoothing)
       IN IF series.threw
          THEN [fees |-> saved, value |-> val, derived |-> FALSE,
                outcome |-> "threw"]
          ELSE [fees |-> saved,
                value |-> [loading |-> FALSE, data |-> series.result],
                derived |-> TRUE, outcome |-> "ok"]

\* The second then-callback of the fetch of a run with parameters p, given
\* the decoded response.
onResponse(response, data, val, p) ==
  IF ~response.success
  THEN [fees |-> data, value |-> [data |-> val.data, loading |-> FALSE],
        derived |-> FALSE, outcome |-> "failed"]
  ELSE LET saved == saveFeeData(response.data, data)
           series == formatData(saved, p.start, p.end, p.primary, p.secondary,
                                p.smoothing)
       IN IF series.threw
          THEN [fees |-> saved, value |-> val, derived |-> FALSE,
                outcome |-> "threw"]
          ELSE [fees |-> saved,
                value |-> [loading |-> FALSE, data |-> series.result],
                derived |-> TRUE, outcome |-> "ok"]

(* --------------------------- the environment -------------------------- *)

\* The earliest day a run can read: day 0 less the largest smoothing.
DayLo == 0 - MaxSmoothing

Windows ==
  {[start |-> DayStart(a), end |-> DayStart(b)] : a, b \in 0..MaxDay}
  \ {w \in [start : {DayStart(a) : a \in 0..MaxDay},
            end : {DayStart(b) : b \in 0..MaxDay}] : w.start > w.end}

\* The fee levels the query service may answer with.
FeeBases == {1, 2}

\* The fee the query service reports for a day at fee level base.
FeeOf(base, dateStr) == base * 10 * (dateStr - DayLo + 1)

RECURSIVE FeeRecords(_, _)
FeeRecords(dates, base) ==
  IF dates = <<>> THEN <<>>
  ELSE <<[date |-> Head(dates), fee |-> FeeOf(base, Head(dates))]>>
       \o FeeRecords(Tail(dates), base)

\* The data of a response reported as successful: per protocol of the
\* query one record per date asked for or, when it is not complete, one per
\* date but the first.
RECURSIVE ResponseData(_, _, _)
ResponseData(query, base, complete) ==
  IF query = <<>> THEN <<>>
  ELSE LET q == Head(query)
           dates == IF complete \/ q.dates = <<>> THEN q.dates
                    ELSE Tail(q.dates)
       IN <<[id |-> q.id, data |-> FeeRecords(dates, base)]>>
          \o ResponseData(Tail(query), base, complete)

\* The cells of the days lo .. hi at fee level base: the snapshot the page
\* is built with holds the window of the day it was built, which is the
\* window of the first render moved back by the snapshot's age in days.
Snapshot(lo, hi, base) == [k \in lo..hi |-> [fee |-> FeeOf(base, k)]]

Remove(seq, i) == SubSeq(seq, 1, i - 1) \o SubSeq(seq, i + 1, Len(seq))

(* ------------------------ the Uniswap adapters ------------------------ *)

\* What registerUniswap registers: per protocol id the adapter function and
\* the subgraph it asks.
registerUniswap ==
  [aid \in {"uniswap-v1", "uniswap-v2", "uniswap-v3", "uniswap-optimism"} |->
     CASE aid = "uniswap-v1" ->
            [fn |-> "getUniswapV1Data", subgraph |-> "graphprotocol/uniswap"]
       [] aid = "uniswap-v2" ->
            [fn |-> "getUniswapV2Data", subgraph |-> "uniswap/uniswap-v2"]
       [] aid = "uniswap-v3" ->
            [fn |-> "uniV3Adapter", subgraph |-> "ianlapham/uniswap-v3-prod"]
       [] aid = "uniswap-optimism" ->
            [fn |-> "uniV3Adapter", subgraph |-> "ianlapham/uniswap-optimism"]]

\* The epoch second of the start of a day.
dateToTimestamp(date) == date * (MsPerDay \div MsPerSecond)

\* A read of a field of the last element of a list: it throws on the empty
\* list.
LastOf(rows) == IF rows = <<>> THEN Thrown ELSE Returned(rows[Len(rows)])

RECURSIVE SumOf(_)
SumOf(rows) == IF rows = <<>> THEN 0 ELSE Head(rows) + SumOf(Tail(rows))

\* The adapters, from the data the subgraph answered with: the amounts of
\* its uniswapDayDatas rows and, for V2, of its blacklist rows.
uniV3Adapter(data) ==
  IF Len(data.uniswapDayDatas) = 0 THEN Returned(Quot(0, 1))
  ELSE Returned(Quot(data.uniswapDayDatas[Len(data.uniswapDayDatas)], 1))

getUniswapV2Data(data) ==
  LET blacklistVolume == SumOf(data.blacklist)
      last == LastOf(data.uniswapDayDatas)
  IN IF last.threw THEN Thrown
     ELSE Returned(Quot((last.result - blacklistVolume) * 3, 1000))

getUniswapV1Data(data) ==
  LET last == LastOf(data.uniswapDayDatas)
  IN IF last.threw THEN Thrown
     ELSE Returned(Quot(last.result * 3, 1000))

\* The adapter function of a registration, applied to the subgraph's data.
AdapterResult(fn, data) ==
  CASE fn = "uniV3Adapter" -> uniV3Adapter(data)
    [] fn = "getUniswapV2Data" -> getUniswapV2Data(data)
    [] fn = "getUniswapV1Data" -> getUniswapV1Data(data)

\* The query capability registerUniswap wraps an adapter in, calling it
\* whatever the attribute.
uniswapQueryAny(entry, attribute, date) ==
  [threw |-> FALSE,
   adapterCalls |-> <<[fn |-> entry.fn, date |-> date]>>,
   graphCalls |-> <<[subgraph |-> entry.subgraph,
                     date |-> dateToTimestamp(date)]>>]

\* The query capability registerUniswap wraps an adapter in: it throws for
\* an attribute other than "fee", and else calls the adapter, which asks
\* its subgraph for the day.
uniswapQuery(entry, attribute, date) ==
  IF attribute # "fee"
  THEN [threw |-> TRUE, adapterCalls |-> <<>>, graphCalls |-> <<>>]
  ELSE [threw |-> FALSE,
        adapterCalls |-> <<[fn |-> entry.fn, date |-> date]>>,
        graphCalls |-> <<[subgraph |-> entry.subgraph,
                          date |-> dateToTimestamp(date)]>>]

NoResult == [status |-> "none", value |-> <<0, 1>>]

\* No query has been made.
NoQuery ==
  [phase |-> "idle", id |-> "", attribute |-> "", date |-> 0,
   adapterCalls |-> <<>>, graphCalls |-> <<>>, answers |-> <<>>,
   result |-> NoResult]

(* ------------------------------ actions ------------------------------- *)

Init ==
  /\ id = "p"
  /\ dateRange = [start |-> DayStart(0), end |-> DayStart(MaxDay)]
  /\ \E age \in 0..MaxDay + 1 :
       fees = (id :> Snapshot(0 - age, MaxDay - age, 1))
  /\ smoothing = 0
  /\ secondary = Null
  /\ value = [loading |-> FALSE, data |-> <<>>]
  /\ mounted = FALSE
  /\ pending = <<>>
  /\ triggers = 0
  /\ outcomes = {}
  /\ derivedFor = <<>>
  /\ adapter = NoQuery

\* A run of the effect after a render with the primed parameters.
RunEffect ==
  LET p == Params(dateRange', id', secondary', smoothing')
      e == useFeesEffect(fees, value, p)
  IN /\ triggers < MaxTriggers
     /\ fees' = e.fees
     /\ value' = e.value
     /\ pending' = pending \o
          (IF e.fetch = <<>> THEN <<>>
           ELSE <<[gen |-> triggers + 1, params |-> p, query |-> e.fetch[1]]>>)
     /\ triggers' = triggers + 1
     /\ derivedFor' = IF e.derived THEN <<p>> ELSE derivedFor
     /\ outcomes' = IF e.threw THEN outcomes \cup {"effectThrew"} ELSE outcomes
     /\ UNCHANGED adapter

Mount ==
  /\ ~mounted
  /\ mounted' = TRUE
  /\ UNCHANGED <<id, dateRange, secondary, smoothing>>
  /\ RunEffect

SetDateRange(range) ==
  /\ mounted
  /\ dateRange' = range
  /\ UNCHANGED <<id, secondary, smoothing, mounted>>
  /\ RunEffect

SetSmoothing(s) ==
  /\ mounted
  /\ s # smoothing
  /\ smoothing' = s
  /\ UNCHANGED <<id, dateRange, secondary, mounted>>
  /\ RunEffect

SetSecondary(sec) ==
  /\ mounted
  /\ sec # secondary
  /\ sec # id
  /\ secondary' = sec
  /\ UNCHANGED <<id, dateRange, smoothing, mounted>>
  /\ RunEffect

\* The handler of pending fetch i runs with the decoded response.
Respond(i, response) ==
  LET r == onResponse(response, fees, value, pending[i].params)
  IN /\ fees' = r.fees
     /\ value' = r.value
     /\ pending' = Remove(pending, i)
     /\ outcomes' = outcomes \cup {r.outcome}
     /\ derivedFor' = IF r.derived THEN <<pending[i].params>> ELSE derivedFor
     /\ UNCHANGED <<id, dateRange, secondary, smoothing, mounted, triggers,
                    adapter>>

ResponseSucceeds(i, base, complete) ==
  /\ i \in 1..Len(pending)
  /\ Respond(i, [success |-> TRUE,
                 data |-> ResponseData(pending[i].query, base, complete)])

ResponseFails(i) ==
  /\ i \in 1..Len(pending)
  /\ Respond(i, [success |-> FALSE, data |-> <<>>])

\* fetch, or the decoding of its body, rejects: no handler runs.
FetchRejects(i) ==
  /\ i \in 1..Len(pending)
  /\ pending' = Remove(pending, i)
  /\ outcomes' = outcomes \cup {"rejected"}
  /\ UNCHANGED <<fees, value, id, dateRange, secondary, smoothing, mounted,
                 triggers, derivedFor, adapter>>

Next ==
  \/ Mount
  \/ \E range \in Windows : SetDateRange(range)
  \/ \E s \in 0..MaxSmoothing : SetSmoothing(s)
  \/ \E sec \in Protocols \cup {Null} : SetSecondary(sec)
  \/ \E i \in 1..MaxTriggers, base \in FeeBases, complete \in BOOLEAN :
       ResponseSucceeds(i, base, complete)
  \/ \E i \in 1..MaxTriggers : ResponseFails(i)
  \/ \E i \in 1..MaxTriggers : FetchRejects(i)

Spec == Init /\ [][Next]_vars

(* ----------------- the first run on an arbitrary store ----------------- *)

Days == DayLo..MaxDay

\* The cells of a set of days at fee level base.
CellsOn(days, base) == [k \in days |-> [fee |-> FeeOf(base, k)]]

\* Every store over Days: per protocol no entry, or a record on any set of
\* days.
EntryChoices == {<<>>} \cup {<<CellsOn(days, base)>> :
                               days \in SUBSET Days, base \in FeeBases}

StoreOf(ep, eq) ==
  LET sp == IF ep = <<>> THEN <<>> ELSE ("p" :> ep[1])
  IN IF eq = <<>> THEN sp ELSE sp @@ ("q" :> eq[1])

InitFn ==
  /\ id = "p"
  /\ \E ep \in EntryChoices, days \in SUBSET Days :
       fees = StoreOf(ep, <<CellsOn(days, 1)>>)
          \/ (days = {} /\ fees = StoreOf(ep, <<>>))
  /\ dateRange \in Windows
  /\ smoothing \in 0..MaxSmoothing
  /\ secondary \in {Null, "q"}
  /\ value = [loading |-> FALSE, data |-> <<>>]
  /\ mounted = FALSE
  /\ pending = <<>>
  /\ triggers = 0
  /\ outcomes = {}
  /\ derivedFor = <<>>
  /\ adapter = NoQuery

NextFn == Mount

SpecFn == InitFn /\ [][NextFn]_vars

(* ------------- the hook with a query service that answers ------------- *)
(* ------------- every date it is asked for                 ------------- *)

NextKept ==
  \/ Mount
  \/ \E range \in Windows : SetDateRange(range)
  \/ \E s \in 0..MaxSmoothing : SetSmoothing(s)
  \/ \E sec \in Protocols \cup {Null} : SetSecondary(sec)
  \/ \E i \in 1..MaxTriggers, base \in FeeBases :
       ResponseSucceeds(i, base, TRUE)
  \/ \E i \in 1..MaxTriggers : ResponseFails(i)
  \/ \E i \in 1..MaxTriggers : FetchRejects(i)

SpecKept == Init /\ [][NextKept]_vars

(* ----------------------- a query of an adapter ------------------------ *)

Attributes == {"fee", "volume", "price"}

\* The amounts a row of uniswapDayDatas holds (feesUSD, dailyVolumeUSD or
\* dailyVolumeInUSD) and the amounts a blacklisted pair's row holds.
Amounts == {2000, 3000}
BlacklistAmounts == {1000}

RowLists(amounts) == UNION {[1..n -> amounts] : n \in 0..MaxRows}

\* What a subgraph may answer a day query with.
GraphData ==
  [uniswapDayDatas : RowLists(Amounts), blacklist : RowLists(BlacklistAmounts)]

\* adapter.query(attribute, date) is called on a registered adapter.
AdapterQuery(aid, attribute, date) ==
  LET q == uniswapQuery(registerUniswap[aid], attribute, date)
  IN /\ adapter.phase = "idle"
     /\ adapter' = [phase |-> IF q.threw THEN "done" ELSE "waiting",
                    id |-> aid, attribute |-> attribute, date |-> date,
                    adapterCalls |-> q.adapterCalls,
                    graphCalls |-> q.graphCalls,
                    answers |-> <<>>,
                    result |-> IF q.threw
                               THEN [status |-> "unsupported", value |-> <<0, 1>>]
                               ELSE NoResult]
     /\ UNCHANGED hookVars

\* The subgraph answers the adapter's query and the adapter finishes.
GraphAnswers(data) ==
  LET fn == adapter.adapterCalls[1].fn
      r == AdapterResult(fn, data)
  IN /\ adapter.phase = "waiting"
     /\ (fn # "getUniswapV2Data" => data.blacklist = <<>>)
     /\ adapter' = [adapter EXCEPT
                      !.phase = "done",
                      !.answers = <<data>>,
                      !.result = IF r.threw
                                 THEN [status |-> "threw", value |-> <<0, 1>>]
                                 ELSE [status |-> "returned", value |-> r.result]]
     /\ UNCHANGED hookVars

\* The call of the subgraph fails: the adapter's promise rejects with it.
GraphFails ==
  /\ adapter.phase = "waiting"
  /\ adapter' = [adapter EXCEPT
                   !.phase = "done",
                   !.result = [status |-> "rejected", value |-> <<0, 1>>]]
  /\ UNCHANGED hookVars

InitAdapter ==
  /\ Init
  /\ fees = ("p" :> Snapshot(0, MaxDay, 1))

NextAdapter ==
  \/ \E aid \in DOMAIN registerUniswap, attribute \in Attributes, date \in Days :
       AdapterQuery(aid, attribute, date)
  \/ \E data \in GraphData : GraphAnswers(data)
  \/ GraphFails

SpecAdapter == InitAdapter /\ [][NextAdapter]_vars

(* ------------------------------- claims ------------------------------- *)

\* Every fetch settled so far resolved with success and its handler
\* finished.
allOk == outcomes \subseteq {"ok"}

\* The parameters of the latest render.
Current == Params(dateRange, id, secondary, smoothing)

\* The days of lo .. hi with no record for a protocol.
AbsentDays(data, pid, lo, hi) == {d \in lo..hi : ~Has(data, pid, d)}

\* seq lists the members of set in ascending order, each once.
ListsExactly(seq, set) ==
  /\ \A i, j \in DOMAIN seq : i < j => seq[i] < seq[j]
  /\ {seq[i] : i \in DOMAIN seq} = set

\* The first and the last day a run with parameters p needs.
FirstDay(p) == formatDate(p.start) - p.smoothing
LastDay(p) == formatDate(p.end)

\* C5: after the first run on any store, the missing list sent for the
\* primary is exactly the ascending list of the days of
\* [start - smoothing, end] with no record for it, the same holds for the
\* secondary when it is named, it is named exactly when it has such a day,
\* and no request is sent exactly when no such day exists.
MissingSetExact ==
  mounted =>
    LET ap == AbsentDays(fees, id, FirstDay(Current), LastDay(Current))
        as == IF secondary = Null THEN {}
              ELSE AbsentDays(fees, secondary, FirstDay(Current),
                              LastDay(Current))
    IN IF ap = {} /\ as = {} THEN pending = <<>>
       ELSE /\ Len(pending) = 1
            /\ pending[1].query[1].id = id
            /\ ListsExactly(pending[1].query[1].dates, ap)
            /\ IF as = {} THEN Len(pending[1].query) = 1
               ELSE /\ Len(pending[1].query) = 2
                    /\ pending[1].query[2].id = secondary
                    /\ ListsExactly(pending[1].query[2].dates, as)

\* The primary has the days up to day 0, the window is [0, MaxDay] with no
\* smoothing, and the request lists exactly the days 1 .. MaxDay.
MissingSetExample ==
  /\ mounted /\ smoothing = 0 /\ secondary = Null
  /\ "p" \in DOMAIN fees /\ DOMAIN fees["p"] = DayLo..0
  /\ dateRange = [start |-> DayStart(0), end |-> DayStart(MaxDay)]
  /\ Len(pending) = 1
  /\ pending[1].query = <<[id |-> "p", dates |-> [i \in 1..MaxDay |-> i]]>>

\* C9: a derived series has (end - start in days) + 1 points, the i-th
\* stamped with the epoch second of the i-th day of the window, strictly
\* ascending, whatever the smoothing and the secondary.
SeriesShape ==
  derivedFor # <<>> =>
    LET p == derivedFor[1]
        n == (p.end - p.start) \div MsPerDay + 1
    IN /\ Len(value.data) = n
       /\ \A i \in 1..n :
            value.data[i].date = (formatDate(p.start) + i - 1) * 86400
       /\ \A i \in 1..n - 1 : value.data[i].date < value.data[i + 1].date

\* A series for the whole window [0, MaxDay] derived with the largest
\* smoothing and a secondary.
SeriesShapeExample ==
  /\ derivedFor = <<Current>>
  /\ smoothing = MaxSmoothing /\ secondary = "q"
  /\ dateRange = [start |-> DayStart(0), end |-> DayStart(MaxDay)]
  /\ Len(value.data) = MaxDay + 1

RECURSIVE FeeSum(_, _, _)
FeeSum(data, pid, days) ==
  IF days = {} THEN 0
  ELSE LET d == CHOOSE x \in days : TRUE
       IN data[pid][d].fee + FeeSum(data, pid, days \ {d})

\* The stored fees of a day and the s days before it, averaged.
TrailingMean(data, pid, day, s) ==
  Quot(FeeSum(data, pid, (day - s)..day), s + 1)

\* C10: each point of a series derived on the first run holds, for the
\* primary and for a set secondary, the sum of the stored fee of its day
\* and of the smoothing days before, divided by smoothing + 1, which with
\* smoothing 0 is the stored fee itself.
SmoothingCorrect ==
  derivedFor # <<>> =>
    LET p == derivedFor[1]
    IN \A i \in DOMAIN value.data :
         LET day == formatDate(p.start) + i - 1
         IN /\ value.data[i].primary
                 = TrailingMean(fees, p.primary, day, p.smoothing)
            /\ p.smoothing = 0 =>
                 value.data[i].primary = <<fees[p.primary][day].fee, 1>>
            /\ p.secondary # Null =>
                 value.data[i].secondary
                   = TrailingMean(fees, p.secondary, day, p.smoothing)

\* Fees 10, 20, 30 on the three days up to day 0 and smoothing 2 give 20
\* on day 0.
SmoothingExample ==
  /\ derivedFor = <<Current>> /\ smoothing = 2
  /\ dateRange.start = DayStart(0)
  /\ fees["p"][-2].fee = 10 /\ fees["p"][-1].fee = 20 /\ fees["p"][0].fee = 30
  /\ value.data[1].primary = <<20, 1>>

\* The series formatData gives for the parameters of the latest render.
CurrentSeries ==
  formatData(fees, dateRange.start, dateRange.end, id, secondary, smoothing)

\* C1: once every fetch has resolved successfully, the output series is the
\* one derived for the parameters of the latest run of the effect.
LastRequestedWins ==
  (mounted /\ pending = <<>> /\ allOk) =>
    /\ ~CurrentSeries.threw
    /\ value.data = CurrentSeries.result

\* A step in which the handler of pending fetch i runs.
HandlerRuns(i) ==
  \/ ResponseFails(i)
  \/ \E base \in FeeBases, complete \in BOOLEAN :
       ResponseSucceeds(i, base, complete)

\* Pending fetch i was issued by a run of the effect that is not the latest.
Superseded(i) == i \in 1..Len(pending) /\ pending[i].gen < triggers

\* C2: the handler of a superseded fetch leaves the series and the loading
\* flag as they were.
StaleHandlerKeepsValue ==
  [][\A i \in 1..MaxTriggers :
       (Superseded(i) /\ HandlerRuns(i)) => value' = value]_vars

\* A step in which the effect runs.
EffectRuns == triggers' = triggers + 1

\* The (protocol, date) pairs a query names.
QueryCells(query) ==
  UNION {{<<query[k].id, query[k].dates[j]>> : j \in DOMAIN query[k].dates} :
           k \in DOMAIN query}

\* C3: no (protocol, date) named in a request has a record in the store
\* when the request is issued.
NoRefetch ==
  [][Len(pending') > Len(pending) =>
       \A c \in QueryCells(pending'[Len(pending')].query) :
         ~Has(fees, c[1], c[2]) /\ ~Has(fees', c[1], c[2])]_vars

\* A request issued for a window of which the store holds a part: the
\* latest run asked for days of the primary while the store had others of
\* its range.
PartialRefetchExample ==
  /\ Len(pending) = 1 /\ pending[1].gen = triggers
  /\ pending[1].query[1].dates # <<>>
  /\ \E d \in FirstDay(Current)..LastDay(Current) : Has(fees, id, d)
  /\ \E d \in FirstDay(Current)..LastDay(Current) : ~Has(fees, id, d)

\* The store holds a record for every day parameters p need, for the
\* primary and for a set secondary.
FullFor(data, p) ==
  /\ AbsentDays(data, p.primary, FirstDay(p), LastDay(p)) = {}
  /\ p.secondary # Null =>
       AbsentDays(data, p.secondary, FirstDay(p), LastDay(p)) = {}

\* C4: a run of the effect on a store that is full for its parameters
\* issues no fetch, leaves loading false and sets the series to the one
\* derived for its parameters.
FullStoreNoFetch ==
  [][(EffectRuns /\ FullFor(fees, Current')) =>
       /\ pending' = pending
       /\ value'.loading = FALSE
       /\ derivedFor' = <<Current'>>
       /\ value'.data = formatData(fees', dateRange'.start, dateRange'.end,
                                    id', secondary', smoothing').result
       /\ Len(value'.data) = LastDay(Current') - formatDate(dateRange'.start) + 1]_vars

\* The store is still the snapshot of the first window and nothing else,
\* so that no run so far has fetched, and the effect has run a second time.
FullStoreExample ==
  /\ fees = ("p" :> Snapshot(0, MaxDay, 1))
  /\ triggers >= 2 /\ allOk
  /\ pending = <<>> /\ ~value.loading
  /\ derivedFor = <<Current>>
  /\ value.data # <<>>

\* C6: the handler of a failed response leaves loading false, the series as
\* it was and the store unchanged.
FailedResponseKeepsStale ==
  [][\A i \in 1..MaxTriggers :
       ResponseFails(i) =>
         /\ value' = [loading |-> FALSE, data |-> value.data]
         /\ fees' = fees]_vars

\* The second run fetched and its fetch failed: the series of the first run
\* is still shown and loading is off.
FailedResponseExample ==
  /\ triggers = 2 /\ pending = <<>> /\ outcomes = {"failed"}
  /\ ~value.loading
  /\ value.data # <<>>
  /\ derivedFor # <<Current>>

\* C7: when a fetch is rejected and no fetch is left in flight, loading is
\* false.
RejectedFetchStopsLoading ==
  [][\A i \in 1..MaxTriggers :
       (FetchRejects(i) /\ pending' = <<>>) => ~value'.loading]_vars

\* C8: loading is true whenever a fetch is in flight.
LoadingWhileFetching ==
  /\ value.loading \in BOOLEAN
  /\ pending # <<>> => value.loading

\* C11: a (protocol, date) pair that has a record keeps one in every later
\* state, and so does a protocol its entry.
StoreGrows ==
  [][\A pid \in DOMAIN fees :
       /\ pid \in DOMAIN fees'
       /\ \A d \in DOMAIN fees[pid] : Has(fees', pid, d)]_vars

\* The effect has run twice and every fetch was answered: the store still
\* holds day 0 of the snapshot beside a record a response brought.
StoreGrowsExample ==
  /\ triggers = 2 /\ pending = <<>> /\ outcomes = {"ok"}
  /\ Has(fees, "p", 0) /\ fees["p"][0].fee = FeeOf(1, 0)
  /\ \E d \in DOMAIN fees["p"] : fees["p"][d].fee = FeeOf(2, d)

\* C12: a run of the effect (the missing sets and the derivation) leaves
\* the store as it was.
EffectLeavesStore ==
  [][EffectRuns => fees' = fees]_vars

\* The subgraph answered the fee query with no uniswapDayDatas row.
ZeroRows ==
  /\ adapter.phase = "done" /\ adapter.attribute = "fee"
  /\ adapter.answers # <<>>
  /\ adapter.answers[1].uniswapDayDatas = <<>>

\* C13: a fee query the subgraph answers with zero rows returns 0, for
\* each adapter registerUniswap registers.
ZeroRowsGiveZero ==
  ZeroRows => adapter.result = [status |-> "returned", value |-> <<0, 1>>]

\* C14: a query for an attribute other than "fee" has failed at once with
\* no call of the adapter or of the subgraph; a query for "fee" has called
\* the adapter registered for the id once, with the date of the query, and
\* the adapter has asked its subgraph once.
UnsupportedAttribute ==
  adapter.phase # "idle" =>
    IF adapter.attribute # "fee"
    THEN /\ adapter.phase = "done"
         /\ adapter.result.status = "unsupported"
         /\ adapter.adapterCalls = <<>>
         /\ adapter.graphCalls = <<>>
    ELSE /\ adapter.result.status # "unsupported"
         /\ adapter.adapterCalls
              = <<[fn |-> registerUniswap[adapter.id].fn,
                   date |-> adapter.date]>>
         /\ Len(adapter.graphCalls) = 1

\* query("volume", date) of uniswap-v2 has failed.
UnsupportedAttributeExample ==
  /\ adapter.phase = "done"
  /\ adapter.id = "uniswap-v2" /\ adapter.attribute = "volume"
  /\ adapter.result.status = "unsupported"

\* A step in which the success handler of pending fetch i runs.
SuccessHandlerRuns(i) ==
  \E base \in FeeBases, complete \in BOOLEAN :
    ResponseSucceeds(i, base, complete)

\* C15: when a success handler has merged its response and a cell its
\* derivation needs is still missing, the handler throws and leaves the
\* series and the loading flag alone; and whenever the series changes, the
\* store holds every cell the new series was derived from.
MissingCellsAreLoud ==
  [][/\ \A i \in 1..MaxTriggers :
          (SuccessHandlerRuns(i) /\ ~FullFor(fees', pending[i].params)) =>
            /\ value' = value
            /\ derivedFor' = derivedFor
            /\ "threw" \in outcomes'
     /\ value'.data # value.data =>
          (derivedFor' # <<>> /\ FullFor(fees', derivedFor'[1]))]_vars

\* A response left out a cell the window needs: its handler threw, the
\* series is still the initial one and the cell is still missing.
MissingCellExample ==
  /\ pending = <<>> /\ outcomes = {"threw"}
  /\ value = [loading |-> TRUE, data |-> <<>>]
  /\ ~FullFor(fees, Current)

\* C16: with a query service that answers every date it is asked for, no
\* derivation throws, in the effect or in a handler, and the store holds
\* every cell of [start - smoothing, end] of the parameters the series was
\* derived for.
DerivationFindsCells ==
  /\ "threw" \notin outcomes
  /\ "effectThrew" \notin outcomes
  /\ derivedFor # <<>> => FullFor(fees, derivedFor[1])

\* The handler of the first run's fetch derived the series after the
\* second run, which asked for a secondary, had been served.
OlderHandlerDerivedExample ==
  /\ triggers = 2 /\ pending = <<>> /\ outcomes = {"ok"}
  /\ derivedFor # <<>> /\ derivedFor[1] # Current
  /\ secondary # Null /\ FullFor(fees, Current)

\* The (protocol, date, fee) triples of the records of a response.
ResponseCells(data) ==
  UNION {{<<data[k].id, data[k].data[j].date, data[k].data[j].fee>> :
            j \in DOMAIN data[k].data} : k \in DOMAIN data}

\* The cells a step of the store from before to after leaves as they were,
\* those of named apart: none is lost, none appears, none changes.
OthersKept(before, after, named) ==
  /\ \A pid \in DOMAIN before : \A d \in DOMAIN before[pid] :
       <<pid, d>> \notin named =>
         (Has(after, pid, d) /\ after[pid][d] = before[pid][d])
  /\ \A pid \in DOMAIN after : \A d \in DOMAIN after[pid] :
       <<pid, d>> \notin named => Has(before, pid, d)

\* C17: after the success handler has merged a response, each record of
\* the response is the store's cell for its protocol and date, and every
\* other cell is as before.
MergeCorrect ==
  [][\A i \in 1..MaxTriggers, base \in FeeBases, complete \in BOOLEAN :
       ResponseSucceeds(i, base, complete) =>
         LET cells == ResponseCells(
                        ResponseData(pending[i].query, base, complete))
         IN /\ \A c \in cells :
                 Has(fees', c[1], c[2]) /\ fees'[c[1]][c[2]] = [fee |-> c[3]]
            /\ OthersKept(fees, fees', {<<c[1], c[2]>> : c \in cells})]_vars

\* A record was overwritten: the series shown was derived from the fee a
\* first response gave for the last day, and the store now holds the fee a
\* second response gave for it.
MergeOverwriteExample ==
  /\ pending = <<>> /\ derivedFor # <<>>
  /\ Len(value.data) = MaxDay + 1
  /\ value.data[MaxDay + 1].primary = <<FeeOf(1, MaxDay), 1>>
  /\ Has(fees, "p", MaxDay) /\ fees["p"][MaxDay].fee = FeeOf(2, MaxDay)

\* C18: a run of the effect issues no fetch when no day is missing, and
\* else one request, which names the primary with exactly its missing days
\* and, only when the secondary has missing days, the secondary with exactly
\* its, and nothing else.
OneCombinedFetch ==
  [][EffectRuns =>
       LET p == Current'
           ap == AbsentDays(fees, p.primary, FirstDay(p), LastDay(p))
           as == IF p.secondary = Null THEN {}
                 ELSE AbsentDays(fees, p.secondary, FirstDay(p), LastDay(p))
       IN IF ap = {} /\ as = {} THEN pending' = pending
          ELSE /\ Len(pending') = Len(pending) + 1
               /\ SubSeq(pending', 1, Len(pending)) = pending
               /\ LET q == pending'[Len(pending')].query
                  IN /\ q[1].id = p.primary
                     /\ ListsExactly(q[1].dates, ap)
                     /\ IF as = {} THEN Len(q) = 1
                        ELSE /\ Len(q) = 2
                             /\ q[2].id = p.secondary
                             /\ ListsExactly(q[2].dates, as)]_vars

\* A request in flight names both protocols with different days.
CombinedFetchExample ==
  \E k \in DOMAIN pending :
    /\ Len(pending[k].query) = 2
    /\ pending[k].query[1].dates # <<>>
    /\ pending[k].query[1].dates # pending[k].query[2].dates

\* C19: a run of the effect that fetches sets loading and keeps the series;
\* the series is empty until a derivation, then has one point per day of
\* the window it was derived for, and changes only to the whole result of
\* a derivation on the store of that moment.
LoadingKeepsSeries ==
  [][/\ (EffectRuns /\ Len(pending') > Len(pending)) =>
          value' = [data |-> value.data, loading |-> TRUE]
     /\ IF derivedFor' = <<>> THEN value'.data = <<>>
        ELSE Len(value'.data)
               = LastDay(derivedFor'[1]) - formatDate(derivedFor'[1].start) + 1
     /\ value'.data # value.data =>
          LET p == derivedFor'[1]
          IN value'.data = formatData(fees', p.start, p.end, p.primary,
                                      p.secondary, p.smoothing).result]_vars

\* The second run is loading and the series of the first run is shown.
LoadingKeepsSeriesExample ==
  /\ triggers = 2 /\ Len(pending) = 1 /\ pending[1].gen = 2
  /\ value.loading /\ value.data # <<>>
  /\ derivedFor # <<Current>>

=============================================================================
